---- MODULE Spec2Model ----
(***************************************************************************)
(* NoteApp (src/NoteApp.py): the Note / Project data model, its JSON       *)
(* persistence (ProjectManager) and the Tkinter handlers that drive them.  *)
(*                                                                         *)
(* Conventions.                                                            *)
(*  - A Python str is a sequence of one-character strings.                 *)
(*  - An optional value (None or x) is the sequence <<>> or <<x>>.         *)
(*  - A datetime is an integer count of microseconds; the calendar part    *)
(*    of its ISO text ("YYYY-MM-DDTHH:MM:SS") is written as the decimal    *)
(*    count of whole seconds, the fraction as Python writes it.            *)
(*  - The collection is the sequence of its Note objects. An edit dialog   *)
(*    keeps a reference to its Note object: the model keeps the position   *)
(*    of that object in the collection, 0 once the object left it (what    *)
(*    is written to such an object is seen by nobody).                     *)
(*  - The widgets that only display (label_note_title, text_note_content)  *)
(*    are left out.                                                        *)
(*  - The category display strings are transliterated to ASCII.            *)
(***************************************************************************)
EXTENDS Integers, Sequences, FiniteSets, TLC

VARIABLES
    memo_collection,   \* Project.memo_collection: the Note objects, in order
    file,              \* the storage file: <<>> (absent) or <<json data>>
    clock,             \* what datetime.now() returns
    current_note_idx,  \* NoteApp.current_note_idx: <<>> (None) or <<index>>
    listbox,           \* NoteApp.notes_listbox: the displayed lines
    selection,         \* notes_listbox.curselection(): <<>> or <<index>>
    dialogs,           \* open note dialogs: each [kind, pos]
    exception,         \* exception the last operation raised ("" when none)
    lastOp             \* the operation that produced this state and its arguments

vars == <<memo_collection, file, clock, current_note_idx,
          listbox, selection, dialogs, exception, lastOp>>

----------------------------------------------------------------------------
(* Bounds of the model *)

MaxNotes == 2      \* notes in the collection
MaxTicks == 1      \* advances of the clock
MaxDialogs == 1    \* note dialogs open at once

(* Program constants *)

MaxTitleLen == 50
US_PER_SEC == 1000000

StartClock == 2 * US_PER_SEC

----------------------------------------------------------------------------
(* Optional values *)

None == <<>>
Some(x) == <<x>>
IsNone(o) == o = <<>>
Val(o) == o[1]

(* Strings *)

Rep(c, n) == [i \in 1..n |-> c]

Whitespace == {" ", "\n", "\t"}

RECURSIVE lstrip(_)
lstrip(s) == IF s # <<>> /\ Head(s) \in Whitespace THEN lstrip(Tail(s)) ELSE s

RECURSIVE rstrip(_)
rstrip(s) ==
    IF s # <<>> /\ s[Len(s)] \in Whitespace
    THEN rstrip(SubSeq(s, 1, Len(s) - 1))
    ELSE s

strip(s) == rstrip(lstrip(s))

\* variant: the limit off by one
Truncate_51(s) == SubSeq(s, 1, IF Len(s) < MaxTitleLen + 1 THEN Len(s) ELSE MaxTitleLen + 1)

\* heading[:50]
Truncate(s) == SubSeq(s, 1, IF Len(s) < MaxTitleLen THEN Len(s) ELSE MaxTitleLen)

----------------------------------------------------------------------------
(* NoteCategory *)

NoteCategory == {"WORK", "HOME", "HEALTH", "PEOPLE", "DOCUMENTS", "FINANCE", "MISC"}

CategoryValue ==
    [WORK |-> "Rabota", HOME |-> "Dom", HEALTH |-> "Zdorovie i Sport",
     PEOPLE |-> "Lyudi", DOCUMENTS |-> "Dokumenty", FINANCE |-> "Finansy",
     MISC |-> "Raznoe"]

\* NoteCategory(value): the member with that value, <<>> for ValueError
CategoryOfValue(value) ==
    IF \E c \in NoteCategory : CategoryValue[c] = value
    THEN Some(CHOOSE c \in NoteCategory : CategoryValue[c] = value)
    ELSE None

----------------------------------------------------------------------------
(* datetime.isoformat / datetime.fromisoformat *)

DigitChars == <<"0", "1", "2", "3", "4", "5", "6", "7", "8", "9">>

IsDigit(c) == \E d \in 1..10 : DigitChars[d] = c
DigitValue(c) == (CHOOSE d \in 1..10 : DigitChars[d] = c) - 1

RECURSIVE Digits(_)
Digits(n) ==
    IF n < 10 THEN <<DigitChars[n + 1]>>
    ELSE Digits(n \div 10) \o <<DigitChars[(n % 10) + 1]>>

ZeroPad(s, width) == Rep("0", IF Len(s) < width THEN width - Len(s) ELSE 0) \o s

RECURSIVE ParseNat(_)
ParseNat(s) ==
    IF s = <<>> THEN 0
    ELSE 10 * ParseNat(SubSeq(s, 1, Len(s) - 1)) + DigitValue(s[Len(s)])

AllDigits(s) == \A i \in 1..Len(s) : IsDigit(s[i])

\* variant: the microseconds written without leading zeros
isoformat_nopad(ts) ==
    LET s == ts \div US_PER_SEC
        us == ts % US_PER_SEC
    IN  IF us = 0 THEN Digits(s) ELSE Digits(s) \o <<".">> \o Digits(us)

isoformat(ts) ==
    LET s == ts \div US_PER_SEC
        us == ts % US_PER_SEC
    IN  IF us = 0 THEN Digits(s) ELSE Digits(s) \o <<".">> \o ZeroPad(Digits(us), 6)

\* datetime.fromisoformat (Python 3.11 and later: a fraction of any length, cut
\* to microseconds; earlier versions take 3 or 6 digits, which is all that
\* isoformat writes); <<>> for ValueError
fromisoformat(text) ==
    LET dots == {i \in 1..Len(text) : text[i] = "."}
    IN  IF dots = {}
        THEN IF text # <<>> /\ AllDigits(text)
             THEN Some(ParseNat(text) * US_PER_SEC)
             ELSE None
        ELSE LET p == CHOOSE i \in dots : \A j \in dots : i <= j
                 whole == SubSeq(text, 1, p - 1)
                 frac == SubSeq(text, p + 1, Len(text))
                 micro == SubSeq(frac \o Rep("0", 6), 1, 6)
             IN  IF /\ whole # <<>> /\ AllDigits(whole)
                    /\ frac # <<>> /\ AllDigits(frac)
                 THEN Some(ParseNat(whole) * US_PER_SEC + ParseNat(micro))
                 ELSE None

----------------------------------------------------------------------------
(* class Note *)

\* Note.__init__ with datetime.now() = now
Note(heading, category, content_body, now) ==
    [title |-> Truncate(heading), category |-> category, content |-> content_body,
     created_at |-> now, updated_at |-> now]

\* Python truth of an optional str: neither None nor ""
Truthy(o) == ~IsNone(o) /\ Val(o) # <<>>

\* variant: the time written to created_at
NoteUpdate_stamps_created(note, heading, category, content_body, now) ==
    [note EXCEPT
        !.title = IF Truthy(heading) THEN Truncate(Val(heading)) ELSE @,
        !.category = IF ~IsNone(category) THEN Val(category) ELSE @,
        !.content = IF Truthy(content_body) THEN Val(content_body) ELSE @,
        !.created_at = now]

\* variant: content_body tested against None only
NoteUpdate_not_none(note, heading, category, content_body, now) ==
    [note EXCEPT
        !.title = IF Truthy(heading) THEN Truncate(Val(heading)) ELSE @,
        !.category = IF ~IsNone(category) THEN Val(category) ELSE @,
        !.content = IF ~IsNone(content_body) THEN Val(content_body) ELSE @,
        !.updated_at = now]

\* variant: updated_at set back to created_at
NoteUpdate_resets_stamp(note, heading, category, content_body, now) ==
    [note EXCEPT
        !.title = IF Truthy(heading) THEN Truncate(Val(heading)) ELSE @,
        !.category = IF ~IsNone(category) THEN Val(category) ELSE @,
        !.content = IF Truthy(content_body) THEN Val(content_body) ELSE @,
        !.updated_at = note.created_at]

\* Note.update with datetime.now() = now; the result is the note afterwards
NoteUpdate(note, heading, category, content_body, now) ==
    [note EXCEPT
        !.title = IF Truthy(heading) THEN Truncate(Val(heading)) ELSE @,
        !.category = IF ~IsNone(category) THEN Val(category) ELSE @,
        !.content = IF Truthy(content_body) THEN Val(content_body) ELSE @,
        !.updated_at = now]

\* Note.to_dict
Note_to_dict(note) ==
    [title |-> note.title,
     category |-> CategoryValue[note.category],
     content |-> note.content,
     created_at |-> isoformat(note.created_at),
     updated_at |-> isoformat(note.updated_at)]

\* Note.from_dict: <<note>>, or <<>> when NoteCategory(...) or fromisoformat
\* raises ValueError
Note_from_dict(data, now) ==
    LET cat == CategoryOfValue(data.category)
        c == fromisoformat(data.created_at)
        u == fromisoformat(data.updated_at)
    IN  IF IsNone(cat) \/ IsNone(c) \/ IsNone(u) THEN None
        ELSE Some([Note(data.title, Val(cat), data.content, now) EXCEPT
                      !.created_at = Val(c), !.updated_at = Val(u)])

----------------------------------------------------------------------------
(* class Project; a Project value is the sequence of its Note objects *)

\* variant: no lower bound on index, so that del counts a negative index from the end
remove_no_lower_bound(seq, index) ==
    IF index < Len(seq)
    THEN LET k == IF index < 0 THEN Len(seq) + index ELSE index
         IN  IF k < 0 THEN seq
             ELSE SubSeq(seq, 1, k) \o SubSeq(seq, k + 2, Len(seq))
    ELSE seq

\* Project.remove_note_by_index on a list, index counted from 0
remove_note_by_index(seq, index) ==
    IF 0 <= index /\ index < Len(seq)
    THEN SubSeq(seq, 1, index) \o SubSeq(seq, index + 2, Len(seq))
    ELSE seq

\* Project.to_dict
Project_to_dict(project) ==
    [notes |-> [i \in 1..Len(project) |-> Note_to_dict(project[i])]]

\* variant: a record that raises is skipped
RECURSIVE from_dict_skipping(_, _)
from_dict_skipping(records, now) ==
    IF records = <<>> THEN Some(<<>>)
    ELSE LET n == Note_from_dict(Head(records), now)
             rest == from_dict_skipping(Tail(records), now)
         IN  IF IsNone(n) THEN rest ELSE Some(<<Val(n)>> \o Val(rest))

\* [Note.from_dict(note_data) for note_data in data["notes"]]
RECURSIVE from_dict_list(_, _)
from_dict_list(records, now) ==
    IF records = <<>> THEN Some(<<>>)
    ELSE LET n == Note_from_dict(Head(records), now)
         IN  IF IsNone(n) THEN None
             ELSE LET rest == from_dict_list(Tail(records), now)
                  IN  IF IsNone(rest) THEN None ELSE Some(<<Val(n)>> \o Val(rest))

\* Project.from_dict: <<project>>, or <<>> when a record raises ValueError
Project_from_dict(data, now) == from_dict_list(data.notes, now)

----------------------------------------------------------------------------
(* class ProjectManager *)

NoFile == None

\* variant: an existing file is not overwritten
save_project_if_absent(project) ==
    IF IsNone(file) THEN Some(Project_to_dict(project)) ELSE file

\* ProjectManager.save_project: the content of the file afterwards
save_project(project) == Some(Project_to_dict(project))

\* ProjectManager.load_project on the file content f
load_project(f, now) ==
    IF ~IsNone(f)
    THEN LET r == Project_from_dict(Val(f), now)
         IN  IF IsNone(r) THEN [ok |-> FALSE, error |-> "ValueError"]
             ELSE [ok |-> TRUE, project |-> Val(r)]
    ELSE [ok |-> TRUE, project |-> <<>>]

----------------------------------------------------------------------------
(* Inputs *)

LongTitle == Rep("b", MaxTitleLen) \o <<"c">>

Headings == {<<"a">>, LongTitle}
Categories == {"MISC"}
Contents == {<<"x">>}

\* the arguments of Note.update: heading, category, content_body
UpdateArgs ==
    {<<None, None, None>>,
     <<Some(<<>>), None, Some(<<>>)>>,
     <<Some(LongTitle \o <<"d">>), None, None>>,
     <<None, Some("HOME"), None>>,
     <<None, None, Some(<<"y">>)>>,
     <<Some(LongTitle \o <<"d">>), Some("HOME"), Some(<<"y">>)>>}

StoredNote(title, category, created_at, updated_at) ==
    [title |-> title, category |-> category, content |-> <<"x">>,
     created_at |-> created_at, updated_at |-> updated_at]

GoodRecord == StoredNote(<<"a">>, "Dom", <<"1">>, <<"1", ".", "5", "0", "0">>)
LongRecord == StoredNote(LongTitle, "Raznoe", <<"2">>, <<"2">>)
ShortRecord == StoredNote(<<"a">>, "Raznoe", <<"2">>, <<"2">>)
BadCategory == StoredNote(<<"a">>, "NotARealCategory", <<"1">>, <<"1">>)
BadCreated ==
    StoredNote(<<"a">>, "Dom", <<"y", "e", "s", "t", "e", "r", "d", "a", "y">>, <<"1">>)
BadUpdated == StoredNote(<<"a">>, "Dom", <<"1">>, <<"1", ".", "5", "x">>)

\* the storage file when the application starts
InitFiles == {NoFile, Some([notes |-> <<GoodRecord>>])}

\* what another program, or an editor, may leave in the storage file
ExternalFiles ==
    InitFiles \cup
    {Some([notes |-> <<LongRecord, GoodRecord>>]),
     Some([notes |-> <<BadCategory>>]),
     Some([notes |-> <<GoodRecord, BadCategory>>]),
     Some([notes |-> <<BadCreated, GoodRecord>>]),
     Some([notes |-> <<GoodRecord, BadUpdated>>])}

\* dictionaries handed to Project.from_dict
DictInputs ==
    {[notes |-> <<LongRecord>>], [notes |-> <<ShortRecord, LongRecord>>]}

\* what the user leaves in the dialog's widgets
TitleInputs ==
    {<<>>, <<" ">>, <<" ", "a", " ">>, Rep("b", MaxTitleLen) \o <<" ">>,
     Rep("b", MaxTitleLen + 1)}
CategoryInputs == {"Raznoe", "Dom"}
TextInputs == {<<"\n">>, <<"x", "\n">>}

----------------------------------------------------------------------------
(* NoteApp._update_notes_list: the lines of the listbox *)

Line(note) == note.title \o <<" ", "(", CategoryValue[note.category], ")">>

update_notes_list(project) == [i \in 1..Len(project) |-> Line(project[i])]

RemoveAt(seq, d) == SubSeq(seq, 1, d - 1) \o SubSeq(seq, d + 1, Len(seq))

----------------------------------------------------------------------------
(* Initial state: the project as load_project returned it, nothing selected *)

Init ==
    /\ clock = StartClock
    /\ file \in InitFiles
    /\ LET r == load_project(file, clock)
       IN  /\ r.ok
           /\ memo_collection = r.project
           /\ listbox = update_notes_list(r.project)
    /\ current_note_idx = None
    /\ selection = None
    /\ dialogs = <<>>
    /\ exception = ""
    /\ lastOp = [op |-> "init"]

\* time passes
Tick ==
    /\ clock < StartClock + MaxTicks
    /\ clock' = clock + 1
    /\ exception' = ""
    /\ lastOp' = [op |-> "tick"]
    /\ UNCHANGED <<memo_collection, file, current_note_idx, listbox, selection, dialogs>>

----------------------------------------------------------------------------
(* The data model and the persistence called directly *)

guiVars == <<current_note_idx, listbox, selection, dialogs>>

\* project.add_note(Note(heading, category, content_body))
AddNote(heading, category, content_body) ==
    /\ Len(memo_collection) < MaxNotes
    /\ memo_collection' =
           Append(memo_collection, Note(heading, category, content_body, clock))
    /\ exception' = ""
    /\ lastOp' = [op |-> "add_note", heading |-> heading]
    /\ UNCHANGED <<file, clock, guiVars>>

\* project.memo_collection[pos - 1].update(heading, category, content_body)
UpdateNote(pos, heading, category, content_body) ==
    /\ pos \in 1..Len(memo_collection)
    /\ memo_collection' =
           [memo_collection EXCEPT
               ![pos] = NoteUpdate(@, heading, category, content_body, clock)]
    /\ exception' = ""
    /\ lastOp' = [op |-> "update", pos |-> pos, heading |-> heading,
                  category |-> category, content_body |-> content_body]
    /\ UNCHANGED <<file, clock, guiVars>>

\* project.remove_note_by_index(index)
RemoveNoteByIndex(index) ==
    /\ memo_collection' = remove_note_by_index(memo_collection, index)
    /\ exception' = ""
    /\ lastOp' = [op |-> "remove_note_by_index", index |-> index]
    /\ UNCHANGED <<file, clock, guiVars>>

\* project = Project.from_dict(data); an exception leaves project as it was
FromDict(data) ==
    /\ LET r == Project_from_dict(data, clock)
       IN  IF IsNone(r)
           THEN /\ exception' = "ValueError"
                /\ UNCHANGED memo_collection
           ELSE /\ exception' = ""
                /\ memo_collection' = Val(r)
    /\ lastOp' = [op |-> "from_dict", data |-> data]
    /\ UNCHANGED <<file, clock, guiVars>>

\* ProjectManager.save_project(project)
SaveProject ==
    /\ file' = save_project(memo_collection)
    /\ exception' = ""
    /\ lastOp' = [op |-> "save_project"]
    /\ UNCHANGED <<memo_collection, clock, guiVars>>

\* project = ProjectManager.load_project(); an exception leaves project as it was
LoadProject ==
    /\ LET r == load_project(file, clock)
       IN  IF r.ok
           THEN /\ memo_collection' = r.project
                /\ exception' = ""
           ELSE /\ exception' = r.error
                /\ UNCHANGED memo_collection
    /\ lastOp' = [op |-> "load_project"]
    /\ UNCHANGED <<file, clock, guiVars>>

\* the storage file is replaced or deleted from outside
ExternalFileChange(f) ==
    /\ f # file
    /\ file' = f
    /\ exception' = ""
    /\ lastOp' = [op |-> "external_file_change"]
    /\ UNCHANGED <<memo_collection, clock, guiVars>>

\* the data model: Note and Project
Next ==
    \/ \E h \in Headings, c \in Categories, b \in Contents : AddNote(h, c, b)
    \/ \E pos \in 1..MaxNotes, a \in UpdateArgs : UpdateNote(pos, a[1], a[2], a[3])
    \/ \E index \in -1..MaxNotes : RemoveNoteByIndex(index)
    \/ \E data \in DictInputs : FromDict(data)
    \/ Tick

\* a session that starts without a storage file: an empty Project
InitEmpty == Init /\ file = NoFile

Spec == InitEmpty /\ [][Next]_vars

\* the data model, with project = Project.from_dict(project.to_dict())
NextRoundTrip ==
    \/ \E h \in Headings, c \in Categories, b \in Contents : AddNote(h, c, b)
    \/ \E pos \in 1..MaxNotes, a \in {u \in UpdateArgs : u[1] # Some(<<>>)} :
          UpdateNote(pos, a[1], a[2], a[3])
    \/ \E index \in 0..(MaxNotes - 1) : RemoveNoteByIndex(index)
    \/ FromDict(Project_to_dict(memo_collection))
    \/ Tick

SpecRoundTrip == InitEmpty /\ [][NextRoundTrip]_vars

\* the persistence: ProjectManager over the storage file
NextStore ==
    \/ AddNote(<<"a">>, "MISC", <<"x">>)
    \/ SaveProject
    \/ LoadProject
    \/ \E f \in ExternalFiles : ExternalFileChange(f)
    \/ Tick

SpecStore == Init /\ [][NextStore]_vars

----------------------------------------------------------------------------
(* class NoteApp: the handlers of the window *)

\* the dialogs after the object at position pos (from 1) left the collection
Retarget(dl, pos) ==
    [d \in 1..Len(dl) |->
        IF dl[d].kind = "edit" /\ dl[d].pos = pos THEN [dl[d] EXCEPT !.pos = 0]
        ELSE IF dl[d].kind = "edit" /\ dl[d].pos > pos THEN [dl[d] EXCEPT !.pos = @ - 1]
        ELSE dl[d]]

\* NoteApp._show_note_content after the user selected line i (from 0)
show_note_content(i) ==
    /\ i < Len(listbox)
    /\ selection' = Some(i)
    /\ current_note_idx' = Some(i)
    /\ exception' = IF i < Len(memo_collection) THEN "" ELSE "IndexError"
    /\ lastOp' = [op |-> "show_note_content", index |-> i]
    /\ UNCHANGED <<memo_collection, file, clock, listbox, dialogs>>

\* NoteApp._show_note_content when the listbox lost its selection
show_note_content_empty ==
    /\ ~IsNone(selection)
    /\ selection' = None
    /\ exception' = ""
    /\ lastOp' = [op |-> "show_note_content_empty"]
    /\ UNCHANGED <<memo_collection, file, clock, current_note_idx, listbox, dialogs>>

\* NoteApp.add_note: _open_note_dialog()
NoteApp_add_note ==
    /\ Len(dialogs) < MaxDialogs
    /\ dialogs' = Append(dialogs, [kind |-> "add", pos |-> 0])
    /\ exception' = ""
    /\ lastOp' = [op |-> "add_note_dialog"]
    /\ UNCHANGED <<memo_collection, file, clock, current_note_idx, listbox, selection>>

\* NoteApp.edit_note
NoteApp_edit_note ==
    /\ IF IsNone(current_note_idx)
       THEN /\ exception' = ""
            /\ lastOp' = [op |-> "edit_note", opened |-> FALSE]
            /\ UNCHANGED dialogs
       ELSE IF Val(current_note_idx) >= Len(memo_collection)
       THEN /\ exception' = "IndexError"
            /\ lastOp' = [op |-> "edit_note", opened |-> FALSE]
            /\ UNCHANGED dialogs
       ELSE /\ Len(dialogs) < MaxDialogs
            /\ dialogs' = Append(dialogs, [kind |-> "edit",
                                           pos |-> Val(current_note_idx) + 1])
            /\ exception' = ""
            /\ lastOp' = [op |-> "edit_note", opened |-> TRUE]
    /\ UNCHANGED <<memo_collection, file, clock, current_note_idx, listbox, selection>>

\* _save_note of dialog d (its OK button), the widgets holding the given texts
save_note(d, title_input, category_value, text_area) ==
    /\ d \in 1..Len(dialogs)
    /\ LET heading == strip(title_input)
           selected_category == Val(CategoryOfValue(category_value))
           note_text == strip(text_area)
           dlg == dialogs[d]
       IN  IF heading = <<>> \/ Len(heading) > MaxTitleLen
           THEN /\ lastOp' = [op |-> "save_note", accepted |-> FALSE]
                /\ UNCHANGED <<memo_collection, file, listbox, selection, dialogs>>
           ELSE /\ IF dlg.kind = "edit"
                   THEN memo_collection' =
                            IF dlg.pos > 0
                            THEN [memo_collection EXCEPT
                                     ![dlg.pos] = NoteUpdate(@, Some(heading),
                                                      Some(selected_category),
                                                      Some(note_text), clock)]
                            ELSE memo_collection
                   ELSE /\ Len(memo_collection) < MaxNotes
                        /\ memo_collection' =
                               Append(memo_collection,
                                      Note(heading, selected_category, note_text, clock))
                /\ file' = save_project(memo_collection')
                /\ listbox' = update_notes_list(memo_collection')
                /\ selection' = None
                /\ dialogs' = RemoveAt(dialogs, d)
                /\ lastOp' = [op |-> "save_note", accepted |-> TRUE, kind |-> dlg.kind,
                              pos |-> IF dlg.kind = "edit" THEN dlg.pos
                                      ELSE Len(memo_collection) + 1,
                              heading |-> heading, category |-> selected_category,
                              note_text |-> note_text]
    /\ exception' = ""
    /\ UNCHANGED <<clock, current_note_idx>>

\* the Cancel button of dialog d: note_dialog.destroy
cancel_dialog(d) ==
    /\ d \in 1..Len(dialogs)
    /\ dialogs' = RemoveAt(dialogs, d)
    /\ exception' = ""
    /\ lastOp' = [op |-> "cancel_dialog"]
    /\ UNCHANGED <<memo_collection, file, clock, current_note_idx, listbox, selection>>

\* variant: current_note_idx is not reset
NoteApp_remove_note_keeps_idx(user_confirmation) ==
    /\ IF IsNone(current_note_idx)
       THEN /\ exception' = ""
            /\ lastOp' = [op |-> "remove_note", removed |-> FALSE]
            /\ UNCHANGED <<memo_collection, file, current_note_idx, listbox,
                           selection, dialogs>>
       ELSE IF Val(current_note_idx) >= Len(memo_collection)
       THEN /\ exception' = "IndexError"
            /\ lastOp' = [op |-> "remove_note", removed |-> FALSE]
            /\ UNCHANGED <<memo_collection, file, current_note_idx, listbox,
                           selection, dialogs>>
       ELSE IF user_confirmation
       THEN /\ memo_collection' =
                   remove_note_by_index(memo_collection, Val(current_note_idx))
            /\ UNCHANGED current_note_idx
            /\ file' = save_project(memo_collection')
            /\ listbox' = update_notes_list(memo_collection')
            /\ selection' = None
            /\ dialogs' = Retarget(dialogs, Val(current_note_idx) + 1)
            /\ exception' = ""
            /\ lastOp' = [op |-> "remove_note", removed |-> TRUE]
       ELSE /\ exception' = ""
            /\ lastOp' = [op |-> "remove_note", removed |-> FALSE]
            /\ UNCHANGED <<memo_collection, file, current_note_idx, listbox,
                           selection, dialogs>>
    /\ UNCHANGED clock

\* NoteApp.remove_note, the user answering user_confirmation to askyesno
NoteApp_remove_note(user_confirmation) ==
    /\ IF IsNone(current_note_idx)
       THEN /\ exception' = ""
            /\ lastOp' = [op |-> "remove_note", removed |-> FALSE]
            /\ UNCHANGED <<memo_collection, file, current_note_idx, listbox,
                           selection, dialogs>>
       ELSE IF Val(current_note_idx) >= Len(memo_collection)
       THEN /\ exception' = "IndexError"
            /\ lastOp' = [op |-> "remove_note", removed |-> FALSE]
            /\ UNCHANGED <<memo_collection, file, current_note_idx, listbox,
                           selection, dialogs>>
       ELSE IF user_confirmation
       THEN /\ memo_collection' =
                   remove_note_by_index(memo_collection, Val(current_note_idx))
            /\ current_note_idx' = None
            /\ file' = save_project(memo_collection')
            /\ listbox' = update_notes_list(memo_collection')
            /\ selection' = None
            /\ dialogs' = Retarget(dialogs, Val(current_note_idx) + 1)
            /\ exception' = ""
            /\ lastOp' = [op |-> "remove_note", removed |-> TRUE]
       ELSE /\ exception' = ""
            /\ lastOp' = [op |-> "remove_note", removed |-> FALSE]
            /\ UNCHANGED <<memo_collection, file, current_note_idx, listbox,
                           selection, dialogs>>
    /\ UNCHANGED clock

\* the application: the user's actions on the window and its dialogs
NextApp ==
    \/ \E i \in 0..(MaxNotes - 1) : show_note_content(i)
    \/ show_note_content_empty
    \/ NoteApp_add_note
    \/ NoteApp_edit_note
    \/ \E d \in 1..MaxDialogs, t \in TitleInputs, c \in CategoryInputs,
          x \in TextInputs : save_note(d, t, c, x)
    \/ \E d \in 1..MaxDialogs : cancel_dialog(d)
    \/ \E user_confirmation \in BOOLEAN : NoteApp_remove_note(user_confirmation)
    \/ Tick

SpecApp == Init /\ [][NextApp]_vars

----------------------------------------------------------------------------
(* Properties *)

Min(a, b) == IF a < b THEN a ELSE b

\* the first MaxTitleLen characters of t
TitlePrefix(t) == [i \in 1..Min(Len(t), MaxTitleLen) |-> t[i]]

SameNotes(p, q) ==
    /\ Len(p) = Len(q)
    /\ \A i \in 1..Len(p) :
          /\ p[i].title = q[i].title
          /\ p[i].category = q[i].category
          /\ p[i].content = q[i].content
          /\ p[i].created_at = q[i].created_at
          /\ p[i].updated_at = q[i].updated_at

\* C1: for every Project reachable by add_note, remove_note_by_index and
\* Note.update, Project.from_dict(p.to_dict()) succeeds and yields a collection
\* of the same length with, position by position, the same title, category,
\* content, created_at and updated_at, also when it is called later.
C1_RoundTrip ==
    LET r == Project_from_dict(Project_to_dict(memo_collection), clock + 1)
    IN  ~IsNone(r) /\ SameNotes(Val(r), memo_collection)

\* a project of two notes, one of them updated after its creation and one with
\* a title of full length, has just been through from_dict(to_dict())
C1_Witness ==
    /\ lastOp.op = "from_dict"
    /\ lastOp.data = Project_to_dict(memo_collection)
    /\ exception = ""
    /\ Len(memo_collection) = 2
    /\ \E i \in 1..2 : memo_collection[i].updated_at > memo_collection[i].created_at
    /\ \E i \in 1..2 : Len(memo_collection[i].title) = MaxTitleLen

\* C2: remove_note_by_index(i) on a collection of length n raises nothing; when
\* 0 <= i < n the result has length n-1, the elements before position i are
\* unchanged and each element formerly at position j > i is at position j-1;
\* when i < 0 or i >= n the collection is unchanged.
C2_RemoveByIndex ==
    [][lastOp'.op = "remove_note_by_index" =>
          LET i == lastOp'.index
              n == Len(memo_collection)
          IN  /\ exception' = ""
              /\ IF 0 <= i /\ i < n
                 THEN /\ Len(memo_collection') = n - 1
                      /\ \A j \in 0..(n - 1) :
                            /\ j < i => memo_collection'[j + 1] = memo_collection[j + 1]
                            /\ j > i => memo_collection'[j] = memo_collection[j + 1]
                 ELSE memo_collection' = memo_collection]_vars

\* the first of several notes has just been removed
C2_Witness ==
    /\ lastOp.op = "remove_note_by_index"
    /\ lastOp.index = 0
    /\ Len(memo_collection) >= 1

\* C3: every Note has a title of at most 50 characters; Note(t, ...), and
\* update(heading=t) with non-empty t, set the title to the first 50 characters
\* of t, and Note.from_dict does the same with the stored title.
C3_TitleTruncated ==
    /\ \A i \in 1..Len(memo_collection) : Len(memo_collection[i].title) <= MaxTitleLen
    /\ lastOp.op = "add_note" =>
          memo_collection[Len(memo_collection)].title = TitlePrefix(lastOp.heading)
    /\ (lastOp.op = "update" /\ Truthy(lastOp.heading)) =>
          memo_collection[lastOp.pos].title = TitlePrefix(Val(lastOp.heading))
    /\ (lastOp.op = "from_dict" /\ exception = "") =>
          /\ Len(memo_collection) = Len(lastOp.data.notes)
          /\ \A i \in 1..Len(memo_collection) :
                memo_collection[i].title = TitlePrefix(lastOp.data.notes[i].title)

\* update was given a heading of more than 50 characters
C3_Witness ==
    /\ lastOp.op = "update"
    /\ Truthy(lastOp.heading)
    /\ Len(Val(lastOp.heading)) > MaxTitleLen
    /\ Len(memo_collection[lastOp.pos].title) = MaxTitleLen

C5_UpdateFrame ==
    [][lastOp'.op = "update" =>
          LET p == lastOp'.pos
              old == memo_collection[p]
              new == memo_collection'[p]
              h == lastOp'.heading
              c == lastOp'.category
              b == lastOp'.content_body
          IN  /\ new.title = IF Truthy(h) THEN TitlePrefix(Val(h)) ELSE old.title
              /\ new.category = IF ~IsNone(c) THEN Val(c) ELSE old.category
              /\ new.content = IF Truthy(b) THEN Val(b) ELSE old.content
              /\ new.created_at = old.created_at
              /\ new.updated_at = clock
              /\ Len(memo_collection') = Len(memo_collection)
              /\ \A q \in 1..Len(memo_collection) :
                    q # p => memo_collection'[q] = memo_collection[q]]_vars

\* update() with every argument absent has refreshed updated_at
C5_Witness ==
    /\ lastOp.op = "update"
    /\ IsNone(lastOp.heading) /\ IsNone(lastOp.category) /\ IsNone(lastOp.content_body)
    /\ memo_collection[lastOp.pos].updated_at = clock
    /\ memo_collection[lastOp.pos].created_at < clock

\* a record that Note.from_dict cannot read
BadRecord(d) ==
    \/ d.category \notin {CategoryValue[c] : c \in NoteCategory}
    \/ IsNone(fromisoformat(d.created_at))
    \/ IsNone(fromisoformat(d.updated_at))

HasBadRecord(f) == ~IsNone(f) /\ \E i \in 1..Len(Val(f).notes) : BadRecord(Val(f).notes[i])

\* C6: load_project on an existing file with at least one record whose category
\* is outside the fixed set, or whose created_at or updated_at does not parse,
\* raises an error and returns no Project, wherever the bad record stands.
C6_LoadFailsWhole ==
    [][(lastOp'.op = "load_project" /\ HasBadRecord(file)) =>
          /\ exception' = "ValueError"
          /\ memo_collection' = memo_collection]_vars

\* a load failed on a file whose first record is valid and whose second is not
C6_Witness ==
    /\ lastOp.op = "load_project"
    /\ exception = "ValueError"
    /\ HasBadRecord(file)
    /\ Len(Val(file).notes) = 2
    /\ ~BadRecord(Val(file).notes[1])

\* C7: after every completed add (dialog OK), edit (dialog OK) and confirmed
\* remove the storage file holds the serialization of the in-memory Project,
\* and in every state load_project would return a Project equal to it.
C7_SavedAfterMutation ==
    /\ (\/ lastOp.op = "save_note" /\ lastOp.accepted
        \/ lastOp.op = "remove_note" /\ lastOp.removed)
          => file = Some(Project_to_dict(memo_collection))
    /\ LET r == load_project(file, clock)
       IN  r.ok /\ SameNotes(r.project, memo_collection)

\* an edit has just been confirmed in a collection of two notes
C7_Witness ==
    /\ lastOp.op = "save_note" /\ lastOp.accepted /\ lastOp.kind = "edit"
    /\ lastOp.pos > 0
    /\ Len(memo_collection) = 2
    /\ file = Some(Project_to_dict(memo_collection))

\* C8 as stated: after any call to Note.update, updated_at is strictly greater
\* than its value before the call.
C8_StrictlyGreater ==
    [][lastOp'.op = "update" =>
          memo_collection'[lastOp'.pos].updated_at
              > memo_collection[lastOp'.pos].updated_at]_vars

\* C8 amended: after any call to Note.update, updated_at is the time the call
\* read; update(heading=t) alone leaves category and content unchanged.
\* updated_at is not earlier than before when the clock did not go back.
C8_NotEarlier ==
    [][lastOp'.op = "update" =>
          LET old == memo_collection[lastOp'.pos]
              new == memo_collection'[lastOp'.pos]
          IN  /\ new.updated_at = clock
              /\ old.updated_at <= clock => new.updated_at >= old.updated_at
              /\ (IsNone(lastOp'.category) /\ IsNone(lastOp'.content_body)) =>
                    new.category = old.category /\ new.content = old.content]_vars

\* a note updated at the very time it was created: updated_at did not advance
C8_Witness ==
    /\ lastOp.op = "update"
    /\ Truthy(lastOp.heading) /\ IsNone(lastOp.category) /\ IsNone(lastOp.content_body)
    /\ memo_collection[lastOp.pos].updated_at = memo_collection[lastOp.pos].created_at
    /\ memo_collection[lastOp.pos].created_at = clock

\* C9 as stated: after the user confirms the edit dialog with a non-empty title
\* of at most 50 characters, the edited note's title, category and content all
\* equal the submitted values, the empty content included.
C9_EditNeverPartial ==
    (lastOp.op = "save_note" /\ lastOp.accepted /\ lastOp.kind = "edit"
     /\ lastOp.pos > 0) =>
        /\ memo_collection[lastOp.pos].title = lastOp.heading
        /\ memo_collection[lastOp.pos].category = lastOp.category
        /\ memo_collection[lastOp.pos].content = lastOp.note_text

====
